---- MODULE Spec2Model ----
(***************************************************************************)
(* The data_extract_tool pipeline: main.py's command dispatch, the PDF     *)
(* ingestion stage (pdf_extractor.py) and the schema-driven extraction     *)
(* stage (flexible_text_parser.py), over a Teradata store and the OpenAI   *)
(* completion API, both of which may fail.                                 *)
(***************************************************************************)
EXTENDS Integers, Sequences, FiniteSets, TLC

(* ------------------------------ bounds -------------------------------- *)

\* rows of the contents table plus PDF files in the directory
MaxDocs == 2
\* largest --sample value tried on the command line
MaxSample == 1
\* length, in tokens, of the text the model returns
MaxRawLen == 4
\* metadata rows another ingestion run inserts while this one runs
MaxOtherInserts == 1

(* --------------------------- Python values ---------------------------- *)

\* A Python value is kept as its type; a str also keeps its text.
None == [type |-> "NoneType", s |-> ""]
Str(m) == [type |-> "str", s |-> m]
Obj(t) == [type |-> t, s |-> ""]

\* Python truthiness of None and of a str (`if error:`, `if args.sample:`)
Truthy(v) == v.type # "NoneType" /\ (v.type = "str" => v.s # "")

(* ------------------------------- texts -------------------------------- *)

\* A text is a sequence of characters; " " is whitespace, "a" is not.
RECURSIVE LStrip(_)
LStrip(t) == IF t # <<>> /\ Head(t) = " " THEN LStrip(Tail(t)) ELSE t

RECURSIVE RStrip(_)
RStrip(t) ==
    IF t # <<>> /\ t[Len(t)] = " " THEN RStrip(SubSeq(t, 1, Len(t) - 1)) ELSE t

\* a variant that strips nothing (`if not text:`)
StripNothing(t) == t

\* str.strip()
Strip(t) == RStrip(LStrip(t))

\* text_content values a contents table can hold
Texts == {<<>>, <<" ">>, <<"a">>}

\* what pdfplumber yields for a file, pages joined, before the final strip()
PageTexts == {<<>>, <<"a", " ">>}

\* str(e) of a failed PDF text extraction
PdfErrors == {<<>>, <<"a">>}

(* --------------------------- json.loads ------------------------------- *)

\* The model's reply is a sequence of tokens: "s" is a string literal, "n"
\* the literal null, "x" any character that starts no JSON value.
RawChars == {"{", "}", "[", "]", "s", ":", ",", "n", " ", "x"}

RawTexts == UNION {[1..n -> RawChars] : n \in 0..MaxRawLen}

JSONDecodeError(m) == [ok |-> FALSE, type |-> "JSONDecodeError", msg |-> m, rest |-> <<>>]

Decoded(t, r) == [ok |-> TRUE, type |-> t, msg |-> "", rest |-> r]

RECURSIVE ParseValue(_), ParseArray(_), ParseObject(_)

\* one JSON value at the head of s
ParseValue(s) ==
    IF s = <<>> THEN JSONDecodeError("Expecting value")
    ELSE CASE Head(s) = "n" -> Decoded("NoneType", Tail(s))
           [] Head(s) = "s" -> Decoded("str", Tail(s))
           [] Head(s) = "[" -> ParseArray(LStrip(Tail(s)))
           [] Head(s) = "{" -> ParseObject(LStrip(Tail(s)))
           [] OTHER -> JSONDecodeError("Expecting value")

\* the rest of an array, after "[" or after a ","
ParseArray(s) ==
    IF s # <<>> /\ Head(s) = "]" THEN Decoded("list", Tail(s))
    ELSE LET v == ParseValue(s) IN
         IF ~v.ok THEN v
         ELSE LET r == LStrip(v.rest) IN
              IF r # <<>> /\ Head(r) = "]" THEN Decoded("list", Tail(r))
              ELSE IF r # <<>> /\ Head(r) = ","
                   THEN LET t == LStrip(Tail(r)) IN
                        IF t # <<>> /\ Head(t) = "]"
                        THEN JSONDecodeError("Expecting value")
                        ELSE ParseArray(t)
                   ELSE JSONDecodeError("Expecting ',' delimiter")

\* the rest of an object, after "{" or after a ","
ParseObject(s) ==
    IF s # <<>> /\ Head(s) = "}" THEN Decoded("dict", Tail(s))
    ELSE IF s = <<>> \/ Head(s) # "s"
    THEN JSONDecodeError("Expecting property name enclosed in double quotes")
    ELSE LET c == LStrip(Tail(s)) IN
         IF c = <<>> \/ Head(c) # ":" THEN JSONDecodeError("Expecting ':' delimiter")
         ELSE LET v == ParseValue(LStrip(Tail(c))) IN
              IF ~v.ok THEN v
              ELSE LET r == LStrip(v.rest) IN
                   IF r # <<>> /\ Head(r) = "}" THEN Decoded("dict", Tail(r))
                   ELSE IF r # <<>> /\ Head(r) = ","
                        THEN LET t == LStrip(Tail(r)) IN
                             IF t = <<>> \/ Head(t) # "s"
                             THEN JSONDecodeError(
                                    "Expecting property name enclosed in double quotes")
                             ELSE ParseObject(t)
                        ELSE JSONDecodeError("Expecting ',' delimiter")

\* json.loads(content) for a str content: the decoded value's type, or the
\* JSONDecodeError it raises
json_loads(s) ==
    LET v == ParseValue(LStrip(s)) IN
    IF ~v.ok THEN v
    ELSE IF LStrip(v.rest) # <<>> THEN JSONDecodeError("Extra data")
    ELSE Decoded(v.type, <<>>)

(* ------------------------- the completion API ------------------------- *)

\* str(e) of what client.chat.completions.create can raise, by class;
\* an exception may carry an empty message
APIErrors ==
    { [cls |-> "transport", msg |-> "Connection error."],
      [cls |-> "transport", msg |-> ""],
      [cls |-> "provider", msg |-> "Error code: 500"] }

AuthErrors == { [cls |-> "auth", msg |-> "Error code: 401"] }

Raises(e) == [kind |-> "raise", cls |-> e.cls, msg |-> e.msg, content |-> <<>>]

Returns(raw) == [kind |-> "text", cls |-> "", msg |-> "", content |-> raw]

\* message.content is None (a reply that carries no text)
NoContent == [kind |-> "none", cls |-> "", msg |-> "", content |-> <<>>]

\* every way one completion call can end when the key is accepted
ValidKeyResponses ==
    {Raises(e) : e \in APIErrors} \cup {NoContent} \cup {Returns(raw) : raw \in RawTexts}

\* with a key the provider rejects, every call raises
InvalidKeyResponses == {Raises(e) : e \in AuthErrors}

(* ---------------------- extract_data_from_text ------------------------ *)

\* The schema file's top-level keys: whether "items" is present and holds
\* "properties", and whether "properties" is present.
Schemas == [items : {"absent", "no_properties", "properties"}, properties : BOOLEAN]

\* a variant that looks for the top-level "properties" first
schema_type_object_first(schema) ==
    IF schema.properties THEN [raised |-> "", shape |-> "object", mapping |-> "properties"]
    ELSE IF schema.items = "properties" THEN [raised |-> "", shape |-> "array", mapping |-> "items.properties"]
    ELSE [raised |-> "KeyError", shape |-> "", mapping |-> ""]

\* the schema dispatch: the shape named in the prompt and the field mapping
\* rendered into it, or the KeyError of schema["properties"]
schema_type(schema) ==
    IF schema.items = "properties" THEN [raised |-> "", shape |-> "array", mapping |-> "items.properties"]
    ELSE IF schema.properties THEN [raised |-> "", shape |-> "object", mapping |-> "properties"]
    ELSE [raised |-> "KeyError", shape |-> "", mapping |-> ""]

\* get_openai_client: OpenAI(api_key=None) raises when no key is configured
get_openai_client(api_key) == IF api_key = "missing" THEN "OpenAIError" ELSE ""

Result(p, e) == [parsed_data |-> p, error |-> e]

PyValue(d) == IF d.type = "str" THEN Str("s") ELSE Obj(d.type)

\* a variant whose JSONDecodeError handler returns no error
decode_content_drops_error(content) ==
    LET d == json_loads(content) IN
    IF d.ok THEN Result(PyValue(d), None) ELSE Result(None, None)

\* the inner try: json.loads(content), or the JSONDecodeError handler
decode_content(content) ==
    LET d == json_loads(content) IN
    IF d.ok THEN Result(PyValue(d), None) ELSE Result(None, Str(d.msg))

\* the outer try: the completion call and what is returned for its response
complete_and_decode(resp) ==
    CASE resp.kind = "raise" -> Result(None, Str(resp.msg))
      [] resp.kind = "none" ->
           Result(None, Str("the JSON object must be str, bytes or bytearray, not NoneType"))
      [] OTHER -> decode_content(resp.content)

\* what the reply was, for the audit: the class of a raised exception and
\* whether its message is empty; for a text, whether it is whitespace-only
\* and to what it decodes
ResponseClass(resp) ==
    CASE resp.kind = "raise" ->
           [kind |-> "raise", cls |-> resp.cls,
            detail |-> IF resp.msg = "" THEN "empty message" ELSE "message"]
      [] resp.kind = "none" -> [kind |-> "none", cls |-> "", detail |-> ""]
      [] OTHER ->
           [kind |-> "text", cls |-> "",
            detail |-> IF Strip(resp.content) = <<>> THEN "blank"
                       ELSE IF json_loads(resp.content).ok
                            THEN json_loads(resp.content).type
                            ELSE "undecodable"]

\* one call: the class of the reply and the pair returned for it
OutcomeOf(r) == [resp |-> ResponseClass(r), ret |-> complete_and_decode(r)]

OutcomesValidKey == {OutcomeOf(r) : r \in ValidKeyResponses}

OutcomesInvalidKey == {OutcomeOf(r) : r \in InvalidKeyResponses}

(* ------------------------------ the store ----------------------------- *)

\* json.dumps(parsed_data) if parsed_data is not None else None: the JSON
\* column holds SQL NULL or a JSON text, kept as its top-level kind
parsed_data_json(v) ==
    CASE v.type = "NoneType" -> "NULL"
      [] v.type = "str" -> "string"
      [] v.type = "dict" -> "object"
      [] OTHER -> "array"

\* a variant that issues the CREATE without looking at the count
check_and_create_table_always_creates(exists, fault) ==
    IF fault = "check" THEN [ret |-> FALSE, exists |-> exists, create_issued |-> FALSE]
    ELSE IF exists \/ fault = "create"
    THEN [ret |-> FALSE, exists |-> exists, create_issued |-> TRUE]
    ELSE IF fault = "commit" THEN [ret |-> FALSE, exists |-> TRUE, create_issued |-> TRUE]
    ELSE [ret |-> TRUE, exists |-> TRUE, create_issued |-> TRUE]

\* check_and_create_table: the return value, whether the table exists after
\* it and whether a CREATE TABLE was issued; fault names the statement that
\* raises (the existence query, the CREATE or the commit), if any
check_and_create_table(exists, fault) ==
    IF fault = "check" THEN [ret |-> FALSE, exists |-> exists, create_issued |-> FALSE]
    ELSE IF exists THEN [ret |-> TRUE, exists |-> TRUE, create_issued |-> FALSE]
    ELSE IF fault = "create" THEN [ret |-> FALSE, exists |-> FALSE, create_issued |-> TRUE]
    ELSE IF fault = "commit" THEN [ret |-> FALSE, exists |-> TRUE, create_issued |-> TRUE]
    ELSE [ret |-> TRUE, exists |-> TRUE, create_issued |-> TRUE]

Faults == {"", "check", "create", "commit"}

\* a variant that leaves out a row whose data is None
insert_skips_null(rows, file_id, schema_name, parsed_data, insert_ok) ==
    IF insert_ok /\ parsed_data # None
    THEN Append(rows, [file_id |-> file_id, schema_name |-> schema_name,
                       parsed_data |-> parsed_data_json(parsed_data)])
    ELSE rows

\* insert_parsed_data_to_teradata: the destination table after the call;
\* an INSERT that raises is printed and swallowed
insert_parsed_data_to_teradata(rows, file_id, schema_name, parsed_data, insert_ok) ==
    IF insert_ok
    THEN Append(rows, [file_id |-> file_id, schema_name |-> schema_name,
                       parsed_data |-> parsed_data_json(parsed_data)])
    ELSE rows

\* get_file_contents: every row of the origin table, or with SAMPLE n a
\* random n of them (all of them when there are fewer); the rows come in
\* the table's order
RECURSIVE Pick(_, _, _)
Pick(rows, keep, i) ==
    IF i > Len(rows) THEN <<>>
    ELSE (IF i \in keep THEN <<rows[i]>> ELSE <<>>) \o Pick(rows, keep, i + 1)

Min(a, b) == IF a < b THEN a ELSE b

get_file_contents(rows, sample) ==
    IF ~sample.given THEN {rows}
    ELSE { Pick(rows, keep, 1) :
             keep \in {k \in SUBSET (1..Len(rows)) : Cardinality(k) = Min(sample.n, Len(rows))} }

(* ------------------------- the run of main.py ------------------------- *)

\* --sample absent, or --sample n
NoSample == [given |-> FALSE, n |-> 0]

Sample(n) == [given |-> TRUE, n |-> n]

\* `if args.sample:` on the parsed int or None
SampleTruthy(sample) == sample.given /\ sample.n # 0

Commands == {"extract-pdf", "parse-flexible", "full-pipeline"}

\* names of the tables, as the f-strings build them from --table
BaseTable == "docs"

ContentsTable(base) == <<base, "_contents">>

SchemaPath == <<"schemas", "schema.json">>

\* os.path.basename
basename(path) == path[Len(path)]

\* the label given with --schema-name, when one is
SchemaLabel == "claims_v2"

\* flexible_text_parser's main: `args.schema_name or os.path.basename(args.schema)`
schema_name_of(args) ==
    IF Truthy(args.schema_name) THEN args.schema_name.s ELSE basename(SchemaPath)

\* a variant that counts a success before looking at the error
record_outcome_counts_all(ret) ==
    IF Truthy(ret.error)
    THEN [state |-> "RECORDED_FAILURE", value |-> ret.error, successful |-> 1]
    ELSE [state |-> "RECORDED_SUCCESS", value |-> ret.parsed_data, successful |-> 1]

\* the branch of the extraction loop on (parsed_data, error): what is
\* recorded, what is inserted and whether successful_parses grows
record_outcome(ret) ==
    IF Truthy(ret.error)
    THEN [state |-> "RECORDED_FAILURE", value |-> ret.error, successful |-> 0]
    ELSE [state |-> "RECORDED_SUCCESS", value |-> ret.parsed_data, successful |-> 1]

\* the end-of-run report; the rate is in tenths of a percent, rounded to the
\* nearest as "%.1f" prints it, and 0 when nothing was processed
summary_of(processed_files, successful_parses) ==
    [processed |-> processed_files,
     succeeded |-> successful_parses,
     failed |-> processed_files - successful_parses,
     rate |-> IF processed_files > 0
              THEN (2000 * successful_parses + processed_files) \div (2 * processed_files)
              ELSE 0]

\* full-pipeline, step 2: whether the extraction stage is called once the
\* command line for it is built
step2_calls_parser(sample) == SampleTruthy(sample)

\* the arguments main.py hands to the extraction stage, as the stage's
\* argparse reads them: cmd_args holds the destination, the origin, the
\* schema path and, when truthy, the sample; --schema-name is never in it
parser_args(argv) ==
    [origin |-> IF argv.command = "full-pipeline" THEN ContentsTable(BaseTable) ELSE argv.origin,
     sample |-> IF SampleTruthy(argv.sample) THEN argv.sample ELSE NoSample,
     schema_name |-> None]

NoArgs == [origin |-> <<>>, sample |-> NoSample, schema_name |-> None]

NoResponse == [kind |-> "", cls |-> "", detail |-> ""]

VARIABLES
    argv,               \* main.py's parsed command line
    api_key,            \* OPENAI_API_KEY: "valid", "invalid" or "missing"
    schema,             \* the schema file's content
    dest_exists,        \* whether the destination table exists
    metadata,           \* the <table>_metadata table
    contents,           \* the <table>_contents table
    parsed,             \* the destination table's rows
    pc,                 \* where the run is
    exc,                \* the exception that ended the run, if one did
    stages,             \* the stages main.py has called, in order
    files,              \* pdf stage: number of PDF files found
    fidx,               \* pdf stage: the file being ingested
    content_records,    \* pdf stage: bulk_ingest's content_records
    ingesting,          \* pdf stage: the file whose metadata row is inserted
                        \* and whose id is not read yet
    ingest_log,         \* pdf stage: the "Ingested file ... with ID" log lines
    pargs,              \* extraction stage: its parsed arguments
    schema_name,        \* extraction stage: schema_name
    conn,               \* extraction stage: the store connection
    docs,               \* extraction stage: the rows fetched
    idx,                \* extraction stage: the row being visited
    processed_files,    \* extraction stage: processed_files
    successful_parses,  \* extraction stage: successful_parses
    table_check,        \* what check_and_create_table found and did, once called
    calls,              \* file ids the completion API was called for
    audit,              \* what became of each row visited
    summary             \* the report printed at the end, if it was

vars ==
    <<argv, api_key, schema, dest_exists, metadata, contents, parsed, pc, exc,
      stages, files, fidx, content_records, ingesting, ingest_log, pargs, schema_name, conn, docs, idx,
      processed_files, successful_parses, table_check, calls, audit, summary>>

env == <<argv, api_key, schema>>

pdf_locals == <<files, fidx, content_records, ingesting, ingest_log>>

parser_locals == <<pargs, schema_name, conn, docs, idx, processed_files, successful_parses>>

ghosts == <<table_check, calls, audit, summary>>

\* the contents table of earlier ingestion runs, with its metadata rows
\* the name of a PDF file: the run that ingests it and its place in that
\* run's directory listing
FileName(run, k) == <<run, k>>

ContentsOf(texts) == [i \in 1..Len(texts) |-> [file_id |-> i, text_content |-> texts[i]]]

TextSeqs == UNION {[1..n -> Texts] : n \in 0..MaxDocs}

\* main.py has parsed its command line and run nothing. Only parse-flexible
\* takes --schema-name. extract-pdf reads
\* neither the schema, the API key nor the destination table, so one value
\* of each stands for all.
Init ==
    /\ argv \in [command : Commands,
                 sample : {NoSample} \cup {Sample(n) : n \in 0..MaxSample},
                 origin : {ContentsTable(BaseTable)},
                 schema_name : {None, Str(SchemaLabel)}]
    /\ argv.command = "extract-pdf" => argv.sample = NoSample
    /\ argv.command # "parse-flexible" => argv.schema_name = None
    /\ api_key \in {"valid", "invalid", "missing"}
    /\ schema \in Schemas
    /\ dest_exists \in BOOLEAN
    /\ argv.command = "extract-pdf" =>
         /\ api_key = "valid"
         /\ schema = [items |-> "absent", properties |-> TRUE]
         /\ dest_exists = FALSE
    /\ \E texts \in TextSeqs :
         /\ contents = ContentsOf(texts)
         /\ metadata = [i \in 1..Len(texts) |->
                          [id |-> i, file_name |-> FileName("earlier", i), success |-> TRUE]]
    /\ parsed = <<>>
    /\ pc = "main"
    /\ exc = ""
    /\ stages = <<>>
    /\ files = 0
    /\ fidx = 1
    /\ content_records = <<>>
    /\ ingesting = <<>>
    /\ ingest_log = <<>>
    /\ pargs = NoArgs
    /\ schema_name = ""
    /\ conn = "none"
    /\ docs = <<>>
    /\ idx = 1
    /\ processed_files = 0
    /\ successful_parses = 0
    /\ table_check = <<>>
    /\ calls = <<>>
    /\ audit = <<>>
    /\ summary = <<>>

(* ------------------------------ main.py ------------------------------- *)

\* main.py, main: the dispatch on the command
Dispatch ==
    /\ pc = "main"
    /\ IF argv.command = "parse-flexible"
       THEN /\ pargs' = parser_args(argv)
            /\ stages' = Append(stages, "flexible_text_parser")
            /\ pc' = "parser"
       ELSE /\ pargs' = pargs
            /\ stages' = Append(stages, "pdf_extractor")
            /\ pc' = "pdf"
    /\ UNCHANGED <<env, dest_exists, metadata, contents, parsed, exc, pdf_locals,
                   schema_name, conn, docs, idx, processed_files, successful_parses,
                   ghosts>>

\* main.py, main: after pdf_extractor_main returns; full-pipeline builds the
\* extraction stage's command line and calls it inside `if args.sample:`
AfterPdf ==
    /\ pc = "pdf_returned"
    /\ IF argv.command = "full-pipeline" /\ step2_calls_parser(argv.sample)
       THEN /\ pargs' = parser_args(argv)
            /\ stages' = Append(stages, "flexible_text_parser")
            /\ pc' = "parser"
       ELSE /\ pargs' = pargs
            /\ stages' = stages
            /\ pc' = "exit"
    /\ UNCHANGED <<env, dest_exists, metadata, contents, parsed, exc, pdf_locals,
                   schema_name, conn, docs, idx, processed_files, successful_parses,
                   ghosts>>

(* -------------------------- pdf_extractor.py -------------------------- *)

\* main: connect, check_and_create_tables, list the directory
PdfStart ==
    /\ pc = "pdf"
    /\ \E n \in 0..(MaxDocs - Len(contents)) : files' = n
    /\ fidx' = 1
    /\ content_records' = <<>>
    /\ pc' = "pdf_loop"
    /\ UNCHANGED <<env, dest_exists, metadata, contents, parsed, exc, stages,
                   ingesting, ingest_log, parser_locals, ghosts>>

\* main: the connection or the table check raises; main prints and returns
PdfSetupFails ==
    /\ pc = "pdf"
    /\ pc' = "pdf_returned"
    /\ UNCHANGED <<env, dest_exists, metadata, contents, parsed, exc, stages,
                   pdf_locals, parser_locals, ghosts>>

\* extract_text_from_pdf joined with its handler in bulk_ingest: the text
\* kept for the file and the success flag
extracted_text(ok, text) ==
    IF ok THEN [text_content |-> Strip(text), success |-> TRUE]
    ELSE [text_content |-> <<"[ERROR]", " ">> \o text, success |-> FALSE]

\* SELECT TOP 1 id ... ORDER BY id DESC
top_id(table) == table[Len(table)].id

\* bulk_ingest: one file, its text extracted and its metadata row inserted
PdfIngestFile ==
    /\ pc = "pdf_loop"
    /\ fidx <= files
    /\ \E ok \in BOOLEAN :
       \E text \in (IF ok THEN PageTexts ELSE PdfErrors) :
         LET x == extracted_text(ok, text)
         IN /\ metadata' = Append(metadata, [id |-> Len(metadata) + 1,
                                             file_name |-> FileName("this", fidx),
                                             success |-> x.success])
            /\ ingesting' = <<[file_name |-> FileName("this", fidx),
                               text_content |-> x.text_content]>>
    /\ pc' = "pdf_read_id"
    /\ UNCHANGED <<env, dest_exists, contents, parsed, exc, stages, files, fidx,
                   content_records, ingest_log, parser_locals, ghosts>>

\* bulk_ingest: the highest id of the metadata table is read as the file's
\* id, kept with the file's text and logged
PdfReadFileId ==
    /\ pc = "pdf_read_id"
    /\ content_records' =
         Append(content_records,
                [file_id |-> top_id(metadata), text_content |-> ingesting[1].text_content])
    /\ ingest_log' =
         Append(ingest_log,
                [file_name |-> ingesting[1].file_name, file_id |-> top_id(metadata)])
    /\ ingesting' = <<>>
    /\ fidx' = fidx + 1
    /\ pc' = "pdf_loop"
    /\ UNCHANGED <<env, dest_exists, metadata, contents, parsed, exc, stages, files,
                   parser_locals, ghosts>>

\* another ingestion run on the same tables executes its metadata INSERT
\* between two statements of this run; it is followed for extract-pdf, whose
\* bulk_ingest is the one full-pipeline's first step calls
OtherRunInserts ==
    /\ argv.command = "extract-pdf"
    /\ pc \in {"pdf_loop", "pdf_read_id"}
    /\ LET others == {i \in 1..Len(metadata) : metadata[i].file_name[1] = "other"}
       IN /\ Cardinality(others) < MaxOtherInserts
          /\ metadata' = Append(metadata,
                                [id |-> Len(metadata) + 1,
                                 file_name |-> FileName("other", Cardinality(others) + 1),
                                 success |-> TRUE])
    /\ UNCHANGED <<env, dest_exists, contents, parsed, pc, exc, stages, pdf_locals,
                   parser_locals, ghosts>>

\* bulk_ingest: the checksum or the metadata INSERT raises; the file is
\* logged and left out
PdfIngestFileFails ==
    /\ pc = "pdf_loop"
    /\ fidx <= files
    /\ fidx' = fidx + 1
    /\ UNCHANGED <<env, dest_exists, metadata, contents, parsed, pc, exc, stages,
                   files, content_records, ingesting, ingest_log, parser_locals,
                   ghosts>>

\* bulk_ingest's executemany, then main's commit and close; a bulk insert
\* that raises is logged and nothing is stored; the stage's locals end with it
PdfBulkInsert ==
    /\ pc = "pdf_loop"
    /\ fidx > files
    /\ \E bulk_ok \in BOOLEAN :
         contents' = IF bulk_ok THEN contents \o content_records ELSE contents
    /\ files' = 0
    /\ fidx' = 1
    /\ content_records' = <<>>
    /\ pc' = "pdf_returned"
    /\ UNCHANGED <<env, dest_exists, metadata, parsed, exc, stages, ingesting,
                   ingest_log, parser_locals, ghosts>>

(* ---------------------- flexible_text_parser.py ----------------------- *)

\* main: load_schema (of a file that holds a JSON object), schema_name,
\* connect_to_teradata
ParserSetup ==
    /\ pc = "parser"
    /\ schema_name' = schema_name_of(pargs)
    /\ conn' = "open"
    /\ pc' = "check_table"
    /\ UNCHANGED <<env, dest_exists, metadata, contents, parsed, exc, stages,
                   pdf_locals, pargs, docs, idx, processed_files, successful_parses,
                   ghosts>>

\* main: connect_to_teradata raises
ParserConnectFails ==
    /\ pc = "parser"
    /\ schema_name' = schema_name_of(pargs)
    /\ exc' = "OperationalError"
    /\ pc' = "crashed"
    /\ UNCHANGED <<env, dest_exists, metadata, contents, parsed, stages, pdf_locals,
                   pargs, conn, docs, idx, processed_files, successful_parses, ghosts>>

\* main: check_and_create_table, and the early return when it fails
EnsureTable ==
    /\ pc = "check_table"
    /\ \E fault \in Faults :
         LET r == check_and_create_table(dest_exists, fault)
         IN /\ dest_exists' = r.exists
            /\ table_check' = <<[existed |-> dest_exists, ret |-> r.ret,
                                 create_issued |-> r.create_issued]>>
            /\ IF r.ret
               THEN /\ conn' = conn
                    /\ pc' = "fetch"
               ELSE /\ conn' = "closed"
                    /\ pc' = "exit"
    /\ UNCHANGED <<env, metadata, contents, parsed, exc, stages, pdf_locals, pargs,
                   schema_name, docs, idx, processed_files, successful_parses,
                   calls, audit, summary>>

\* main: the counters are reset and the loop's iterable is fetched
FetchDocuments ==
    /\ pc = "fetch"
    /\ docs' \in get_file_contents(contents, pargs.sample)
    /\ idx' = 1
    /\ processed_files' = 0
    /\ successful_parses' = 0
    /\ pc' = "loop"
    /\ UNCHANGED <<env, dest_exists, metadata, contents, parsed, exc, stages,
                   pdf_locals, pargs, schema_name, conn, ghosts>>

\* main: the query on the origin table raises
FetchFails ==
    /\ pc = "fetch"
    /\ exc' = "OperationalError"
    /\ pc' = "crashed"
    /\ UNCHANGED <<env, dest_exists, metadata, contents, parsed, stages, pdf_locals,
                   parser_locals, ghosts>>

Visited(state, resp, ret, inserted) ==
    [file_id |-> docs[idx].file_id,
     state |-> state,
     resp |-> resp,
     shape |-> schema_type(schema).shape,
     mapping |-> schema_type(schema).mapping,
     payload_set |-> ret.parsed_data # None,
     error_set |-> ret.error # None,
     inserted |-> inserted]

\* main: `if not text.strip(): continue`
SkipEmptyFile ==
    /\ pc = "loop"
    /\ idx <= Len(docs)
    /\ Strip(docs[idx].text_content) = <<>>
    /\ idx' = idx + 1
    /\ audit' = Append(audit, Visited("SKIPPED", NoResponse, Result(None, None), FALSE))
    /\ UNCHANGED <<env, dest_exists, metadata, contents, parsed, pc, exc, stages,
                   pdf_locals, pargs, schema_name, conn, docs, processed_files,
                   successful_parses, table_check, calls, summary>>

\* what extract_data_from_text raises before its try block
raised_before_try(key, sch) ==
    IF get_openai_client(key) # "" THEN get_openai_client(key)
    ELSE schema_type(sch).raised

\* main: extract_data_from_text raises and the exception leaves main
ExtractRaises ==
    /\ pc = "loop"
    /\ idx <= Len(docs)
    /\ Strip(docs[idx].text_content) # <<>>
    /\ raised_before_try(api_key, schema) # ""
    /\ exc' = raised_before_try(api_key, schema)
    /\ pc' = "crashed"
    /\ UNCHANGED <<env, dest_exists, metadata, contents, parsed, stages, pdf_locals,
                   parser_locals, ghosts>>

\* main: one non-blank row; the model is called once, its outcome is
\* recorded and inserted, and processed_files grows
ProcessFile ==
    /\ pc = "loop"
    /\ idx <= Len(docs)
    /\ Strip(docs[idx].text_content) # <<>>
    /\ raised_before_try(api_key, schema) = ""
    /\ \E o \in (IF api_key = "invalid" THEN OutcomesInvalidKey ELSE OutcomesValidKey) :
       \E insert_ok \in BOOLEAN :
         LET rec == record_outcome(o.ret)
         IN /\ calls' = Append(calls, docs[idx].file_id)
            /\ successful_parses' = successful_parses + rec.successful
            /\ parsed' = insert_parsed_data_to_teradata(
                           parsed, docs[idx].file_id, schema_name, rec.value, insert_ok)
            /\ audit' = Append(audit, Visited(rec.state, o.resp, o.ret, insert_ok))
    /\ processed_files' = processed_files + 1
    /\ idx' = idx + 1
    /\ UNCHANGED <<env, dest_exists, metadata, contents, pc, exc, stages, pdf_locals,
                   pargs, schema_name, conn, docs, table_check, summary>>

\* main: after the loop, commit, close and the summary
Finish ==
    /\ pc = "loop"
    /\ idx > Len(docs)
    /\ conn' = "closed"
    /\ summary' = <<summary_of(processed_files, successful_parses)>>
    /\ pc' = "exit"
    /\ UNCHANGED <<env, dest_exists, metadata, contents, parsed, exc, stages,
                   pdf_locals, pargs, schema_name, docs, idx, processed_files,
                   successful_parses, table_check, calls, audit>>

\* main: conn.commit() raises after the loop
FinishCommitFails ==
    /\ pc = "loop"
    /\ idx > Len(docs)
    /\ exc' = "OperationalError"
    /\ pc' = "crashed"
    /\ UNCHANGED <<env, dest_exists, metadata, contents, parsed, stages, pdf_locals,
                   parser_locals, ghosts>>

Next ==
    \/ Dispatch
    \/ AfterPdf
    \/ PdfStart
    \/ PdfSetupFails
    \/ PdfIngestFile
    \/ PdfReadFileId
    \/ OtherRunInserts
    \/ PdfIngestFileFails
    \/ PdfBulkInsert
    \/ ParserSetup
    \/ ParserConnectFails
    \/ EnsureTable
    \/ FetchDocuments
    \/ FetchFails
    \/ SkipEmptyFile
    \/ ExtractRaises
    \/ ProcessFile
    \/ Finish
    \/ FinishCommitFails

Spec == Init /\ [][Next]_vars

(* ------------------------------ claims -------------------------------- *)

\* the rows visited for which the model was invoked
Invoked == {k \in 1..Len(audit) : audit[k].state # "SKIPPED"}

\* the destination rows that carry a file id
RowsFor(fid) == {j \in 1..Len(parsed) : parsed[j].file_id = fid}

\* a text that is empty or holds only whitespace
IsBlank(t) == \A i \in 1..Len(t) : t[i] = " "

\* the extraction stage has printed its summary
Reported == pc = "exit" /\ summary # <<>>

\* C1, as stated: every document the model was invoked for has exactly one
\* row for its file id, whatever its outcome, and at the end of the run the
\* rows inserted are as many as the reported processed count.
C1_EveryInvokedDocumentLeavesOneRow ==
    /\ \A k \in Invoked :
         Cardinality(RowsFor(audit[k].file_id)) =
           Cardinality({m \in Invoked : audit[m].file_id = audit[k].file_id})
    /\ Reported => Len(parsed) = summary[1].processed

\* C1, amended: a document the model was invoked for has one row for its file
\* id unless its INSERT raised, in which case it has none; the rows inserted
\* are the processed count less the inserts that raised.
C1_OneRowUnlessInsertRaised ==
    /\ \A k \in Invoked :
         Cardinality(RowsFor(audit[k].file_id)) =
           Cardinality({m \in Invoked :
                          audit[m].file_id = audit[k].file_id /\ audit[m].inserted})
    /\ processed_files = Cardinality(Invoked)
    /\ Len(parsed) = processed_files - Cardinality({k \in Invoked : ~audit[k].inserted})
    /\ Reported => summary[1].processed = processed_files

\* C1, witness: a run that ended with two documents processed, one of them a
\* failure outcome whose row was inserted and one whose INSERT raised.
C1_Witness ==
    /\ Reported
    /\ summary[1].processed = 2
    /\ Len(parsed) = 1
    /\ \E k \in Invoked : audit[k].state = "RECORDED_FAILURE" /\ audit[k].inserted
    /\ \E k \in Invoked : ~audit[k].inserted

\* a reply that decoded but whose top-level shape is not the schema's
ShapeMismatch(a) ==
    /\ a.resp.kind = "text"
    /\ \/ a.shape = "array" /\ a.resp.detail = "dict"
       \/ a.shape = "object" /\ a.resp.detail = "list"

\* C2, as stated: a reply that decodes to a mapping under an array schema, or
\* to a sequence under an object schema, is recorded as a failure and its
\* decoded value is not what is persisted; a mapping under an object schema
\* is a success.
C2_ShapeMismatchIsFailure ==
    \A k \in Invoked :
      /\ ShapeMismatch(audit[k]) =>
           audit[k].state = "RECORDED_FAILURE" /\ ~audit[k].payload_set
      /\ audit[k].resp.kind = "text" /\ audit[k].shape = "object"
           /\ audit[k].resp.detail = "dict" =>
           audit[k].state = "RECORDED_SUCCESS"

\* C3, as stated: a failure to invoke the model, of any class and a missing
\* API key included, is recorded as that document's failure and never ends
\* the run before every document is visited and the summary is printed.
C3_InvocationFailureNeverAborts ==
    /\ ~(pc = "crashed" /\ exc = "OpenAIError" /\ idx <= Len(docs))
    /\ \A k \in Invoked :
         audit[k].resp.kind = "raise" => audit[k].state = "RECORDED_FAILURE"

\* C4: a row whose text is blank is skipped: it is recorded as SKIPPED with
\* no model call and no row, the counters count only the other rows, and the
\* step that skips it changes neither the calls, the destination table nor
\* the counters and goes on to the next row.
C4_BlankDocumentIsSkipped ==
    /\ [](/\ \A k \in 1..Len(audit) :
               IsBlank(docs[k].text_content) =>
                 /\ audit[k].state = "SKIPPED"
                 /\ audit[k].resp = NoResponse
                 /\ ~audit[k].inserted
          /\ processed_files =
               Cardinality({k \in 1..Len(audit) : ~IsBlank(docs[k].text_content)})
          /\ Len(calls) = processed_files
          /\ Len(parsed) <= processed_files
          /\ successful_parses <= processed_files)
    /\ [][pc = "loop" /\ idx <= Len(docs) /\ IsBlank(docs[idx].text_content) =>
            /\ pc' = "loop"
            /\ idx' = idx + 1
            /\ UNCHANGED <<calls, parsed, processed_files, successful_parses>>]_vars

\* C4, witness: a blank row was skipped and the row after it was processed.
C4_Witness ==
    /\ Len(audit) = 2
    /\ IsBlank(docs[1].text_content)
    /\ docs[1].text_content # <<>>
    /\ audit[1].state = "SKIPPED"
    /\ audit[2].state # "SKIPPED"
    /\ processed_files = 1

\* C5, as stated: of the pair a processed document's extraction returned,
\* exactly one of payload and error is set; a success has a payload and no
\* error; a call or a decoding that raised has an error and is a failure.
C5_ExactlyOneOfPayloadAndError ==
    \A k \in Invoked :
      /\ audit[k].payload_set # audit[k].error_set
      /\ audit[k].state = "RECORDED_SUCCESS" =>
           audit[k].payload_set /\ ~audit[k].error_set
      /\ audit[k].resp.kind \in {"raise", "none"}
           \/ audit[k].resp.detail \in {"blank", "undecodable"} =>
           audit[k].error_set /\ audit[k].state = "RECORDED_FAILURE"

\* C6: the summary of a run that completes: processed is the number of model
\* calls, succeeded the number of recorded successes, failed their
\* difference, 0 <= succeeded <= processed <= rows handed to the run, and
\* the rate is 0 when nothing was processed.
C6_SummaryCounts ==
    Reported =>
      LET r == summary[1] IN
      /\ r.processed = Len(calls)
      /\ r.processed = Cardinality(Invoked)
      /\ r.succeeded = Cardinality({k \in Invoked : audit[k].state = "RECORDED_SUCCESS"})
      /\ r.failed = r.processed - r.succeeded
      /\ 0 <= r.succeeded
      /\ r.succeeded <= r.processed
      /\ r.processed <= Len(docs)
      /\ r.processed = 0 => r.rate = 0
      /\ r.rate \in 0..1000

\* C6, witness: a completed run that processed two rows, one a success and
\* one a failure, and reported a rate of 50.0%.
C6_Witness ==
    /\ Reported
    /\ summary[1].processed = 2
    /\ summary[1].succeeded = 1
    /\ summary[1].failed = 1
    /\ summary[1].rate = 500

\* C7, as stated: full-pipeline, once ended, has run the ingestion stage and
\* then the extraction stage on the contents table, with or without --sample.
C7_FullPipelineRunsBothStages ==
    argv.command = "full-pipeline" /\ pc \in {"exit", "crashed"} =>
      /\ stages = <<"pdf_extractor", "flexible_text_parser">>
      /\ pargs.origin = ContentsTable(BaseTable)

\* C8, as stated: with a schema that has no field mapping under either
\* shape, the extraction stage stops at setup: the destination table is
\* never checked or created, nothing is fetched, called or inserted, and no
\* summary is printed.
C8_BadSchemaAbortsAtSetup ==
    schema_type(schema).raised # "" =>
      /\ pc \notin {"check_table", "fetch", "loop"}
      /\ table_check = <<>>
      /\ docs = <<>>
      /\ calls = <<>>
      /\ parsed = <<>>
      /\ summary = <<>>

\* C9: a reply that is blank or does not decode is a failure under either
\* shape: an error and no payload, never a success; the step that records it
\* leaves successful_parses alone and goes on to the next row.
C9_UndecodableIsParseFailure ==
    /\ [](\A k \in Invoked :
            audit[k].resp.kind = "text"
              /\ audit[k].resp.detail \in {"blank", "undecodable"} =>
              /\ audit[k].state = "RECORDED_FAILURE"
              /\ audit[k].error_set
              /\ ~audit[k].payload_set)
    /\ [][Len(audit') = Len(audit) + 1
            /\ audit'[Len(audit')].resp.kind = "text"
            /\ audit'[Len(audit')].resp.detail \in {"blank", "undecodable"} =>
            /\ successful_parses' = successful_parses
            /\ processed_files' = processed_files + 1
            /\ pc' = "loop"
            /\ idx' = idx + 1]_vars

\* C9, witness: a blank reply under an array schema and an undecodable one
\* under it too, both recorded as failures, with the run completed.
C9_Witness ==
    /\ Reported
    /\ Len(audit) = 2
    /\ audit[1].shape = "array"
    /\ audit[1].resp.detail = "blank"
    /\ audit[1].state = "RECORDED_FAILURE"
    /\ audit[2].resp.detail = "undecodable"
    /\ audit[2].state = "RECORDED_FAILURE"
    /\ summary[1].succeeded = 0

\* C10: when check_and_create_table fails the run returns with the
\* connection closed and nothing fetched, called, inserted or reported; a
\* table that exists is found without a CREATE, also by a call repeated in
\* any state the run leaves behind, unless the existence query itself raises.
C10_TableSetup ==
    /\ \A c \in {table_check[i] : i \in 1..Len(table_check)} :
         /\ ~c.ret =>
              /\ pc = "exit"
              /\ conn = "closed"
              /\ docs = <<>>
              /\ calls = <<>>
              /\ parsed = <<>>
              /\ summary = <<>>
         /\ c.existed => ~c.create_issued
         /\ c.ret => dest_exists
    /\ dest_exists =>
         \A fault \in Faults \ {"check"} :
           /\ check_and_create_table(dest_exists, fault).ret
           /\ ~check_and_create_table(dest_exists, fault).create_issued
           /\ check_and_create_table(dest_exists, fault).exists

\* C10, witness: the CREATE was issued for a missing table and failed, and
\* the run returned with rows waiting in the origin table.
C10_Witness ==
    /\ table_check # <<>>
    /\ ~table_check[1].existed
    /\ table_check[1].create_issued
    /\ ~table_check[1].ret
    /\ pc = "exit"
    /\ conn = "closed"
    /\ Len(contents) = 2
    /\ \E i \in 1..Len(contents) : ~IsBlank(contents[i].text_content)

\* C11: a schema whose "items" holds a field mapping is ARRAY and the prompt
\* carries that nested mapping; a schema with a top-level field mapping and
\* no "items" is OBJECT and the prompt carries the top-level mapping; all the
\* documents of one run are processed with the same shape and mapping.
C11_ShapeAndMappingFollowSchema ==
    \A k \in Invoked :
      /\ schema.items = "properties" =>
           audit[k].shape = "array" /\ audit[k].mapping = "items.properties"
      /\ schema.items = "absent" /\ schema.properties =>
           audit[k].shape = "object" /\ audit[k].mapping = "properties"
      /\ \A m \in Invoked :
           audit[m].shape = audit[k].shape /\ audit[m].mapping = audit[k].mapping

\* C11, witness: two documents processed under a schema that holds both a
\* nested and a top-level field mapping.
C11_Witness ==
    /\ schema.items = "properties"
    /\ schema.properties
    /\ Cardinality(Invoked) = 2
    /\ \A k \in Invoked : audit[k].shape = "array"

\* C12, as stated: under parse-flexible every row inserted carries the label
\* given with --schema-name, and the base name of the schema path only when
\* no label was given.
C12_RowsCarryGivenLabel ==
    argv.command = "parse-flexible" =>
      \A j \in 1..Len(parsed) :
        parsed[j].schema_name =
          IF argv.schema_name # None THEN argv.schema_name.s ELSE basename(SchemaPath)

\* C13, as stated: the file id kept with each file's text is the id of the
\* metadata row inserted for that same file, also when another ingestion run
\* inserts into the metadata table between this run's INSERT and its read of
\* the highest id.
C13_FileIdIsOwnMetadataRow ==
    \A k \in 1..Len(ingest_log) :
      \E i \in 1..Len(metadata) :
        /\ metadata[i].id = ingest_log[k].file_id
        /\ metadata[i].file_name = ingest_log[k].file_name

\* the ids of the metadata rows whose success flag is false
FailedIds == {metadata[i].id : i \in {n \in 1..Len(metadata) : ~metadata[n].success}}

\* the calls of the model made for a file id
CallsFor(fid) == {c \in 1..Len(calls) : calls[c] = fid}

\* C14, as stated: a file whose text extraction failed, its metadata success
\* flag false, causes no model call and no parsed-data row in the extraction
\* stage; a row visited whose file's extraction succeeded with non-blank text
\* causes exactly one model call.
C14_ModelSeesExtractedTextOnly ==
    /\ \A fid \in FailedIds : CallsFor(fid) = {} /\ RowsFor(fid) = {}
    /\ \A k \in 1..Len(audit) :
         docs[k].file_id \notin FailedIds /\ ~IsBlank(docs[k].text_content) =>
           Cardinality(CallsFor(docs[k].file_id)) = 1

====
